---- MODULE Spec2Model ----
(***************************************************************************)
(* State-machine model of the VXLAN vport of datapath/vport-vxlan.c:       *)
(* vxlan_tnl_create, vxlan_tnl_destroy, vxlan_tnl_send, vxlan_rcv and the  *)
(* accessors, together with the collaborators they call (the socket table  *)
(* behind vxlan_sock_add / vxlan_sock_release, the vport allocator and its *)
(* RCU-deferred free, the route resolver).                                 *)
(*                                                                         *)
(* Numbers.  A CPU integer of w bytes is the sequence of its w base-256    *)
(* digits, least significant first; a network-order (__be16, __be32,       *)
(* __be64) object is the sequence of its bytes as they lie on the wire,    *)
(* most significant first.  htonX / ntohX / cpu_to_beX / beX_to_cpu        *)
(* convert between the two.                                                *)
(***************************************************************************)
EXTENDS Integers, Sequences, FiniteSets, Bags, TLC

VARIABLES vports, create_local, socks, ops, rt_refs, ev, codec

vars == <<vports, create_local, socks, ops, rt_refs, ev, codec>>

\* the control state: endpoints and the socket table
control == <<vports, create_local, socks>>

----------------------------------------------------------------------------
(* Bounds of the model *)

NumVports == 2

NumCpus == 2

Vports == 1 .. NumVports

\* a socket is identified by the vport whose create opened it
Socks == Vports

NoVport == 0

NoSock == 0

Ports == {4789, 8472}

----------------------------------------------------------------------------
(* Integers and byte order *)

RECURSIVE Digits(_, _)
Digits(n, w) == IF w = 0 THEN <<>> ELSE <<n % 256>> \o Digits(n \div 256, w - 1)

Reverse(s) == [i \in 1 .. Len(s) |-> s[Len(s) + 1 - i]]

htons(d) == Reverse(d)

ntohs(b) == Reverse(b)

htonl(d) == Reverse(d)

ntohl(b) == Reverse(b)

cpu_to_be64(d) == Reverse(d)

be64_to_cpu(b) == Reverse(b)

\* (u64) x << 8
Shl8_64(d) == <<0>> \o SubSeq(d, 1, 7)

\* (u32) x >> 8
Shr8_32(d) == SubSeq(d, 2, 4) \o <<0>>

\* the implicit conversion of a u64 argument to the __u32 parameter of htonl
TruncU32(d) == SubSeq(d, 1, 4)

\* the implicit conversion of a u32 value to the u64 parameter of cpu_to_be64
ZextU64(d) == d \o <<0, 0, 0, 0>>

U16(n) == Digits(n, 2)

----------------------------------------------------------------------------
(* Data *)

\* IFNAMSIZ of <linux/if.h>, the size of vxlan_port.name
IFNAMSIZ == 16

NUL == 0

\* parms->name: "vxlan0"
Names == { <<118, 120, 108, 97, 110, 48>> }

\* strncpy(dst, src, n): the first n characters of src, padded with NULs
strncpy(src, n) == [i \in 1 .. n |-> IF i <= Len(src) THEN src[i] ELSE NUL]

\* struct nlattr: the attribute's type, its payload length in bytes, its payload
OVS_TUNNEL_ATTR_DST_PORT == 1

\* some attribute type other than the destination port
OVS_TUNNEL_ATTR_OTHER == OVS_TUNNEL_ATTR_DST_PORT + 1

Attr(type, len, val) == [type |-> type, len |-> len, val |-> val]

\* parms->options: a NULL pointer, or a nest of attributes
NullOptions == [null |-> TRUE, attrs |-> <<>>]

Nest(attrs) == [null |-> FALSE, attrs |-> attrs]

OptionSets ==
    {NullOptions, Nest(<<>>)}
    \cup {Nest(<<Attr(OVS_TUNNEL_ATTR_DST_PORT, 2, p)>>) : p \in Ports}
    \cup {Nest(<<Attr(OVS_TUNNEL_ATTR_OTHER, 2, p), Attr(OVS_TUNNEL_ATTR_DST_PORT, 2, p)>>) : p \in Ports}
    \cup {Nest(<<Attr(OVS_TUNNEL_ATTR_DST_PORT, 4, 4789)>>),
          Nest(<<Attr(OVS_TUNNEL_ATTR_DST_PORT, 1, 189)>>),
          Nest(<<Attr(OVS_TUNNEL_ATTR_DST_PORT, 4, 4789), Attr(OVS_TUNNEL_ATTR_DST_PORT, 2, 4789)>>),
          Nest(<<Attr(OVS_TUNNEL_ATTR_OTHER, 2, 4789)>>)}

\* nla_find_nested(options, type): the first attribute of that type, <<>> if none
nla_find_nested(options, type) ==
    LET idx == {i \in 1 .. Len(options.attrs) : options.attrs[i].type = type}
    IN  IF idx = {} THEN <<>>
        ELSE <<options.attrs[CHOOSE i \in idx : \A j \in idx : i <= j]>>

\* vxlan_parse_options without the nla_len(a) == sizeof(u16) test of line 127
vxlan_parse_options_any_width(options) ==
    IF options.null THEN <<>>
    ELSE LET a == nla_find_nested(options, OVS_TUNNEL_ATTR_DST_PORT)
         IN  IF a # <<>> THEN <<a[1].val>> ELSE <<>>

\* lines 122-133: the dst_port the options carry, <<>> when create fails with -EINVAL
vxlan_parse_options(options) ==
    IF options.null THEN <<>>
    ELSE LET a == nla_find_nested(options, OVS_TUNNEL_ATTR_DST_PORT)
         IN  IF a # <<>> /\ a[1].len = 2 THEN <<a[1].val>> ELSE <<>>

\* struct vport with its struct vxlan_port private area
FreeVport(st) == [state |-> st, name |-> <<>>, vs |-> NoSock]

\* struct vxlan_sock as the socket table keeps it
UnusedSock == [st |-> "unused", port |-> <<>>, refcnt |-> 0, data |-> NoVport, closes |-> 0]

\* a send or receive in flight (the packet-path code runs, on up to NumCpus
\* CPUs at a time, inside an RCU read-side critical section): the operation,
\* its locals vport, tun_key and dst_port, whether it began before the destroy
\* of its vport, and the vports whose deferred free waits for it
Op(op, vport, tun_key, dst_port, pre) ==
    [op |-> op, vport |-> vport, tun_key |-> tun_key, dst_port |-> dst_port,
     pre |-> pre, grace |-> {}]

\* struct ovs_key_ipv4_tunnel; tun_id is a __be64, tun_flags a set of flag bits
TunnelKey(src, dst, id, tos, ttl, flags) ==
    [ipv4_src |-> src, ipv4_dst |-> dst, tun_id |-> id, ipv4_tos |-> tos,
     ipv4_ttl |-> ttl, tun_flags |-> flags]

\* the outer IP header of a received packet
IpHdr(src, dst, tos, ttl) == [saddr |-> src, daddr |-> dst, tos |-> tos, ttl |-> ttl]

Addr1 == <<10, 0, 0, 1>>

Addr2 == <<10, 0, 0, 2>>

\* the tunnel key of the end-to-end scenario: tunnel id 5000, don't fragment
Key5000 ==
    TunnelKey(Addr1, Addr2, cpu_to_be64(Digits(5000, 8)), 0, 64, {"TUNNEL_DONT_FRAGMENT"})

\* OVS_CB(skb)->tun_key of the packets handed to send: NULL, or a key
SendKeys == {<<>>, <<Key5000>>}

\* the outer headers and VNI fields of the packets that arrive
RcvHdrs == {IpHdr(Addr2, Addr1, 0, 63)}

RcvVnis == {htonl(<<0, 136, 19, 0>>)}

\* what the last step did: the operation, what it returned ("-" while it is
\* still running), the calls it made to its collaborators, and the reads it
\* made of memory already released
Event(op, ret, calls, bad) ==
    [op |-> op, arg |-> <<>>, ret |-> ret, calls |-> calls, bad |-> bad, out |-> <<>>]

\* the same for the step that begins a call, with the argument of the call
EventArg(op, arg, ret, calls) ==
    [op |-> op, arg |-> <<arg>>, ret |-> ret, calls |-> calls, bad |-> {}, out |-> <<>>]

\* the same, with what the step handed to a collaborator
EventOut(op, ret, calls, bad, out) ==
    [op |-> op, arg |-> <<>>, ret |-> ret, calls |-> calls, bad |-> bad, out |-> <<out>>]

NoCodec == [stage |-> "off"]

Init ==
    /\ vports = [e \in Vports |-> FreeVport("Uninitialized")]
    /\ create_local = [e \in Vports |-> <<>>]
    /\ socks = [s \in Socks |-> UnusedSock]
    /\ ops = EmptyBag
    /\ rt_refs = 0
    /\ ev = Event("init", "-", <<>>, {})
    /\ codec = NoCodec

----------------------------------------------------------------------------
(* The socket table: vxlan_sock_add and vxlan_sock_release *)

\* the table entry of a port: the open socket bound to it
SockOf(port) == {s \in Socks : socks[s].st = "open" /\ socks[s].port = port}

\* the socket table after vxlan_sock_add(net, port, vxlan_rcv, data, ...) returned
\* socket s: the existing entry with one more reference, or a new entry
vxlan_sock_add(s, port, data) ==
    IF socks[s].st = "open"
    THEN [socks EXCEPT ![s].refcnt = @ + 1]
    ELSE [socks EXCEPT ![s] = [st |-> "open", port |-> port, refcnt |-> 1,
                               data |-> data, closes |-> 0]]

\* the sockets vxlan_sock_add may return for a port: the entry of the port, or,
\* when there is none, the socket that the vport `data` opens
vxlan_sock_add_result(port, data) ==
    IF SockOf(port) # {} THEN SockOf(port)
    ELSE {s \in Socks : s = data /\ socks[s].st = "unused"}

\* vxlan_sock_release(vs): one reference less; the last one closes the socket
vxlan_sock_release(s) ==
    IF socks[s].refcnt - 1 = 0
    THEN [socks EXCEPT ![s].refcnt = 0, ![s].st = "closed", ![s].closes = @ + 1]
    ELSE [socks EXCEPT ![s].refcnt = @ - 1]

----------------------------------------------------------------------------
(* The vport allocator and the RCU-deferred free *)

\* ovs_vport_alloc returns a fresh object: the lowest slot never used
ovs_vport_alloc_result == {e \in Vports : /\ vports[e].state = "Uninitialized"
                                           /\ \A f \in Vports : f < e => vports[f].state # "Uninitialized"}

\* the operation o, which a grace period for vport e now waits for
WaitedFor(o, e) == [o EXCEPT !.grace = @ \cup {e}]

\* ovs_vport_deferred_free(vport): call_rcu; the free waits for every reader
\* that is inside its read-side critical section now
ovs_vport_deferred_free(e) ==
    /\ vports' = [vports EXCEPT ![e].state = "Destroying"]
    /\ ops' = BagOfAll(LAMBDA o : WaitedFor(o, e), ops)

\* ovs_vport_free(vport): the object is released at once
ovs_vport_free(e) ==
    /\ vports' = [vports EXCEPT ![e] = FreeVport("Freed")]
    /\ ops' = ops

\* rcu_read_lock by a new operation o, on a free CPU
rcu_read_lock(o) ==
    /\ BagCardinality(ops) < NumCpus
    /\ ops' = ops (+) SetToBag({o})

\* rcu_read_unlock by operation o: no grace period waits for it any longer
rcu_read_unlock(o) == ops' = ops (-) SetToBag({o})

\* the operations in flight
InFlight == BagToSet(ops)

----------------------------------------------------------------------------
(* vxlan_tnl_create *)

\* lines 122-141: parse the options, allocate the vport, copy the name
vxlan_tnl_create_begin(e, name, options) ==
    /\ e \in ovs_vport_alloc_result
    /\ LET p == vxlan_parse_options(options)
       IN  IF p = <<>>
           THEN /\ ev' = EventArg("create", options, "EINVAL", <<>>)
                /\ UNCHANGED <<vports, create_local>>
           ELSE \/ /\ ev' = EventArg("create", options, "ENOMEM", <<"ovs_vport_alloc">>)
                   /\ UNCHANGED <<vports, create_local>>
                \/ /\ ev' = EventArg("create", options, "-", <<"ovs_vport_alloc">>)
                   /\ vports' = [vports EXCEPT ![e] = [state |-> "Creating",
                                                       name |-> strncpy(name, IFNAMSIZ),
                                                       vs |-> NoSock]]
                   /\ create_local' = [create_local EXCEPT ![e] = U16(p[1])]
    /\ UNCHANGED <<socks, ops, rt_refs, codec>>

\* vxlan_tnl_create_sock without line 147: a failed vxlan_sock_add leaves the
\* vport allocated
vxlan_tnl_create_sock_no_free(e) ==
    /\ vports[e].state = "Creating"
    /\ LET port == htons(create_local[e])
       IN  \/ \E s \in vxlan_sock_add_result(port, e) :
                 /\ socks' = vxlan_sock_add(s, port, e)
                 /\ vports' = [vports EXCEPT ![e].vs = s, ![e].state = "Active"]
                 /\ create_local' = [create_local EXCEPT ![e] = <<>>]
                 /\ ev' = Event("create", "OK", <<"vxlan_sock_add">>, {})
           \/ /\ SockOf(port) = {}
              /\ UNCHANGED <<socks, vports, create_local>>
              /\ ev' = Event("create", "SocketError", <<"vxlan_sock_add">>, {})
    /\ UNCHANGED <<ops, rt_refs, codec>>

\* vxlan_tnl_create_sock with the test of line 146 inverted: the vport is freed
\* when vxlan_sock_add succeeded, and the reference it took stays behind
vxlan_tnl_create_sock_inverted(e) ==
    /\ vports[e].state = "Creating"
    /\ LET port == htons(create_local[e])
       IN  \/ \E s \in vxlan_sock_add_result(port, e) :
                 /\ socks' = vxlan_sock_add(s, port, e)
                 /\ ovs_vport_free(e)
                 /\ ev' = Event("create", "SocketError", <<"vxlan_sock_add", "ovs_vport_free">>, {})
           \/ /\ SockOf(port) = {}
              /\ socks' = socks
              /\ ovs_vport_free(e)
              /\ ev' = Event("create", "SocketError", <<"vxlan_sock_add", "ovs_vport_free">>, {})
    /\ create_local' = [create_local EXCEPT ![e] = <<>>]
    /\ UNCHANGED <<rt_refs, codec>>

\* vxlan_tnl_create_sock opening a socket of its own without looking for the
\* socket the port already has
vxlan_tnl_create_sock_own(e) ==
    /\ vports[e].state = "Creating"
    /\ LET port == htons(create_local[e])
       IN  \/ /\ socks[e].st = "unused"
              /\ socks' = vxlan_sock_add(e, port, e)
              /\ vports' = [vports EXCEPT ![e].vs = e, ![e].state = "Active"]
              /\ ops' = ops
              /\ ev' = Event("create", "OK", <<"vxlan_sock_add">>, {})
           \/ /\ socks' = socks
              /\ ovs_vport_free(e)
              /\ ev' = Event("create", "SocketError", <<"vxlan_sock_add", "ovs_vport_free">>, {})
    /\ create_local' = [create_local EXCEPT ![e] = <<>>]
    /\ UNCHANGED <<rt_refs, codec>>

\* lines 145-152: take the socket of htons(dst_port); on failure free the vport
vxlan_tnl_create_sock(e) ==
    /\ vports[e].state = "Creating"
    /\ LET port == htons(create_local[e])
       IN  \/ \E s \in vxlan_sock_add_result(port, e) :
                 /\ socks' = vxlan_sock_add(s, port, e)
                 /\ vports' = [vports EXCEPT ![e].vs = s, ![e].state = "Active"]
                 /\ ops' = ops
                 /\ ev' = Event("create", "OK", <<"vxlan_sock_add">>, {})
           \/ /\ SockOf(port) = {}
              /\ socks' = socks
              /\ ovs_vport_free(e)
              /\ ev' = Event("create", "SocketError", <<"vxlan_sock_add", "ovs_vport_free">>, {})
    /\ create_local' = [create_local EXCEPT ![e] = <<>>]
    /\ UNCHANGED <<rt_refs, codec>>

----------------------------------------------------------------------------
(* vxlan_tnl_destroy *)

\* vxlan_tnl_destroy calling ovs_vport_free instead of ovs_vport_deferred_free
vxlan_tnl_destroy_free_now(e) ==
    /\ vports[e].state = "Active"
    /\ socks' = vxlan_sock_release(vports[e].vs)
    /\ ovs_vport_free(e)
    /\ ev' = Event("destroy", "OK", <<"vxlan_sock_release", "ovs_vport_free">>, {})
    /\ UNCHANGED <<create_local, rt_refs, codec>>

\* vxlan_tnl_destroy without line 101: the socket reference is never released
vxlan_tnl_destroy_no_release(e) ==
    /\ vports[e].state = "Active"
    /\ socks' = socks
    /\ ovs_vport_deferred_free(e)
    /\ ev' = Event("destroy", "OK", <<"ovs_vport_deferred_free">>, {})
    /\ UNCHANGED <<create_local, rt_refs, codec>>

\* vxlan_tnl_destroy releasing the socket reference twice
vxlan_tnl_destroy_release_twice(e) ==
    /\ vports[e].state = "Active"
    /\ socks' = LET once == vxlan_sock_release(vports[e].vs)
                IN  IF once[vports[e].vs].st = "open"
                    THEN [once EXCEPT ![vports[e].vs] =
                            IF @.refcnt - 1 = 0
                            THEN [@ EXCEPT !.refcnt = 0, !.st = "closed", !.closes = @ + 1]
                            ELSE [@ EXCEPT !.refcnt = @ - 1]]
                    ELSE [once EXCEPT ![vports[e].vs].closes = @ + 1]
    /\ ovs_vport_deferred_free(e)
    /\ ev' = Event("destroy", "OK",
                   <<"vxlan_sock_release", "vxlan_sock_release", "ovs_vport_deferred_free">>, {})
    /\ UNCHANGED <<create_local, rt_refs, codec>>

\* vxlan_tnl_destroy without line 103: the vport is never handed to the
\* deferred free
vxlan_tnl_destroy_no_free(e) ==
    /\ vports[e].state = "Active"
    /\ socks' = vxlan_sock_release(vports[e].vs)
    /\ ev' = Event("destroy", "OK", <<"vxlan_sock_release">>, {})
    /\ UNCHANGED <<vports, create_local, ops, rt_refs, codec>>

\* lines 97-104: release the socket, then defer the free of the vport
vxlan_tnl_destroy(e) ==
    /\ vports[e].state = "Active"
    /\ socks' = vxlan_sock_release(vports[e].vs)
    /\ ovs_vport_deferred_free(e)
    /\ ev' = Event("destroy", "OK", <<"vxlan_sock_release", "ovs_vport_deferred_free">>, {})
    /\ UNCHANGED <<create_local, rt_refs, codec>>

\* the RCU callback of ovs_vport_deferred_free, after the grace period
free_vport_rcu(e) ==
    /\ vports[e].state = "Destroying"
    /\ \A o \in InFlight : e \notin o.grace
    /\ vports' = [vports EXCEPT ![e] = FreeVport("Freed")]
    /\ ev' = Event("free", "-", <<>>, {})
    /\ UNCHANGED <<create_local, socks, ops, rt_refs, codec>>

----------------------------------------------------------------------------
(* vxlan_tnl_send *)

\* vxlan_df set by any tunnel flag
vxlan_df_any_flag(key) == key.tun_flags # {}

\* line 189: df = tun_flags & TUNNEL_DONT_FRAGMENT ? htons(IP_DF) : 0
vxlan_df(key) == "TUNNEL_DONT_FRAGMENT" \in key.tun_flags

\* vxlan_vni_field without the shift that leaves the low byte reserved
vxlan_vni_field_no_shift(tun_id) == htonl(TruncU32(be64_to_cpu(tun_id)))

\* line 202: htonl(be64_to_cpu(tun_id) << 8)
vxlan_vni_field(tun_id) == htonl(TruncU32(Shl8_64(be64_to_cpu(tun_id))))

\* the reads of released memory that a use of vport e and its socket makes
StaleReads(e) ==
    IF vports[e].state = "Freed" THEN {"freed_vport"}
    ELSE IF socks[vports[e].vs].st # "open" THEN {"closed_sock"}
    ELSE {}

\* vxlan_tnl_send_begin with the test of line 171 made after the route lookup
vxlan_tnl_send_begin_late_check(e, tun_key) ==
    /\ vports[e].state = "Active"
    /\ BagCardinality(ops) < NumCpus
    /\ IF tun_key = <<>>
       THEN /\ ev' = EventArg("send", tun_key, "EINVAL", <<"find_route">>)
            /\ ops' = ops
            /\ rt_refs' = rt_refs + 1
       ELSE /\ ev' = EventArg("send", tun_key, "-", <<>>)
            /\ rcu_read_lock(Op("send", e, tun_key, socks[vports[e].vs].port, TRUE))
            /\ rt_refs' = rt_refs
    /\ UNCHANGED <<vports, create_local, socks, codec>>

\* lines 160-174: read the socket's port; a packet without tunnel key is refused
vxlan_tnl_send_begin(e, tun_key) ==
    /\ vports[e].state = "Active"
    /\ BagCardinality(ops) < NumCpus
    /\ IF tun_key = <<>>
       THEN /\ ev' = EventArg("send", tun_key, "EINVAL", <<>>)
            /\ ops' = ops
       ELSE /\ ev' = EventArg("send", tun_key, "-", <<>>)
            /\ rcu_read_lock(Op("send", e, tun_key, socks[vports[e].vs].port, TRUE))
    /\ UNCHANGED <<vports, create_local, socks, rt_refs, codec>>

\* what lines 197-202 hand to vxlan_xmit_skb
vxlan_xmit_args(o) ==
    LET key == o.tun_key[1]
    IN  [saddr |-> key.ipv4_src, dst |-> key.ipv4_dst,
         tos |-> key.ipv4_tos, ttl |-> key.ipv4_ttl, df |-> vxlan_df(key),
         dst_port |-> o.dst_port, vni |-> vxlan_vni_field(key.tun_id)]

\* the route references that running sends own: find_route gives send one,
\* a successful vxlan_xmit_skb takes it over, ip_rt_put drops one
find_route(refs) == refs + 1

vxlan_xmit_skb_ok(refs) == refs - 1

ip_rt_put(refs) == refs - 1

SendCalls == <<"find_route", "inet_get_local_port_range", "vxlan_src_port", "vxlan_xmit_skb">>

\* vxlan_tnl_send_xmit without the ip_rt_put of line 204
vxlan_tnl_send_xmit_no_put(o) ==
    /\ o \in InFlight
    /\ o.op = "send"
    /\ \/ /\ ev' = Event("send", "RouteError", <<"find_route">>, {})
          /\ rt_refs' = rt_refs
       \/ /\ ev' = EventOut("send", "OK", SendCalls,
                            StaleReads(o.vport), vxlan_xmit_args(o))
          /\ rt_refs' = vxlan_xmit_skb_ok(find_route(rt_refs))
       \/ /\ ev' = EventOut("send", "XmitError", SendCalls,
                            StaleReads(o.vport), vxlan_xmit_args(o))
          /\ rt_refs' = find_route(rt_refs)
    /\ rcu_read_unlock(o)
    /\ UNCHANGED <<vports, create_local, socks, codec>>

\* vxlan_tnl_send_xmit releasing the vport's socket when the transmit fails
vxlan_tnl_send_xmit_teardown(o) ==
    /\ o \in InFlight
    /\ o.op = "send"
    /\ \/ /\ ev' = Event("send", "RouteError", <<"find_route">>, {})
          /\ rt_refs' = rt_refs
          /\ socks' = socks
       \/ /\ ev' = EventOut("send", "OK", SendCalls,
                            StaleReads(o.vport), vxlan_xmit_args(o))
          /\ rt_refs' = vxlan_xmit_skb_ok(find_route(rt_refs))
          /\ socks' = socks
       \/ /\ ev' = EventOut("send", "XmitError", SendCalls \o <<"ip_rt_put", "vxlan_sock_release">>,
                            StaleReads(o.vport), vxlan_xmit_args(o))
          /\ rt_refs' = ip_rt_put(find_route(rt_refs))
          /\ socks' = IF vports[o.vport].state = "Freed" THEN socks
                      ELSE vxlan_sock_release(vports[o.vport].vs)
    /\ rcu_read_unlock(o)
    /\ UNCHANGED <<vports, create_local, codec>>

\* lines 176-207: the route lookup, which may fail; then the outer header is built
\* and the packet transmitted through vxlan_port->vs.  find_route hands send one
\* reference to the route; a transmitted packet takes it along, a failed transmit
\* leaves it to send, which puts it (line 204).
vxlan_tnl_send_xmit(o) ==
    /\ o \in InFlight
    /\ o.op = "send"
    /\ \/ /\ ev' = Event("send", "RouteError", <<"find_route">>, {})
          /\ rt_refs' = rt_refs
       \/ /\ ev' = EventOut("send", "OK", SendCalls,
                            StaleReads(o.vport), vxlan_xmit_args(o))
          /\ rt_refs' = vxlan_xmit_skb_ok(find_route(rt_refs))
       \/ /\ ev' = EventOut("send", "XmitError", SendCalls \o <<"ip_rt_put">>,
                            StaleReads(o.vport), vxlan_xmit_args(o))
          /\ rt_refs' = ip_rt_put(find_route(rt_refs))
    /\ rcu_read_unlock(o)
    /\ UNCHANGED <<vports, create_local, socks, codec>>

----------------------------------------------------------------------------
(* vxlan_rcv *)

\* vxlan_rcv_key without the shift that drops the reserved low byte
vxlan_rcv_key_no_shift(vx_vni) == cpu_to_be64(ZextU64(ntohl(vx_vni)))

\* line 79: key = cpu_to_be64(ntohl(vx_vni) >> 8)
vxlan_rcv_key(vx_vni) == cpu_to_be64(ZextU64(Shr8_32(ntohl(vx_vni))))

\* ovs_flow_tun_key_init(&tun_key, iph, key, tun_flags)
ovs_flow_tun_key_init(iph, tun_id, tun_flags) ==
    TunnelKey(iph.saddr, iph.daddr, tun_id, iph.tos, iph.ttl, tun_flags)

\* lines 73-80: the socket's callback takes the vport from vs->data and builds the key
vxlan_rcv_begin(s, iph, vx_vni) ==
    /\ socks[s].st = "open"
    /\ rcu_read_lock(Op("rcv", socks[s].data,
                        <<ovs_flow_tun_key_init(iph, vxlan_rcv_key(vx_vni), {"TUNNEL_KEY"})>>,
                        socks[s].port, vports[socks[s].data].state = "Active"))
    /\ ev' = Event("rcv", "-", <<>>, {})
    /\ UNCHANGED <<vports, create_local, socks, rt_refs, codec>>

\* line 84: ovs_vport_receive(vport, skb, &tun_key)
vxlan_rcv_deliver(o) ==
    /\ o \in InFlight
    /\ o.op = "rcv"
    /\ ev' = EventOut("rcv", "OK", <<"ovs_vport_receive">>,
                      IF vports[o.vport].state = "Freed" THEN {"freed_vport"} ELSE {},
                      [tun_key |-> o.tun_key[1]])
    /\ rcu_read_unlock(o)
    /\ UNCHANGED <<vports, create_local, socks, rt_refs, codec>>

----------------------------------------------------------------------------
(* vxlan_get_options and vxlan_get_name *)

\* the u16 that the two bytes d (least significant first) hold
U16Value(d) == d[1] + 256 * d[2]

\* the C string that starts at buf: the characters before the first NUL
CString(buf) ==
    LET nuls == {i \in 1 .. Len(buf) : buf[i] = NUL}
    IN  IF nuls = {} THEN buf
        ELSE SubSeq(buf, 1, (CHOOSE i \in nuls : \A j \in nuls : i <= j) - 1)

\* the step of an accessor called on vport e
EventOn(e, op, ret, calls, out) ==
    [op |-> op, arg |-> <<e>>, ret |-> ret, calls |-> calls, bad |-> {}, out |-> <<out>>]

\* vxlan_get_options without the ntohs of line 92
vxlan_get_options_no_ntohs(e, room) ==
    /\ vports[e].state = "Active"
    /\ LET dst_port == socks[vports[e].vs].port
       IN  IF room
           THEN ev' = EventOn(e, "get_options", "OK", <<"nla_put_u16">>,
                              Nest(<<Attr(OVS_TUNNEL_ATTR_DST_PORT, 2, U16Value(dst_port))>>))
           ELSE ev' = EventOn(e, "get_options", "EMSGSIZE", <<"nla_put_u16">>, Nest(<<>>))
    /\ UNCHANGED <<vports, create_local, socks, ops, rt_refs, codec>>

\* lines 87-95: the port of the vport's socket is put into the reply as a u16
\* attribute in CPU byte order; nla_put_u16 fails when the reply has no room
\* for the attribute, and get_options then returns -EMSGSIZE
vxlan_get_options(e, room) ==
    /\ vports[e].state = "Active"
    /\ LET dst_port == socks[vports[e].vs].port
       IN  IF room
           THEN ev' = EventOn(e, "get_options", "OK", <<"nla_put_u16">>,
                              Nest(<<Attr(OVS_TUNNEL_ATTR_DST_PORT, 2, U16Value(ntohs(dst_port)))>>))
           ELSE ev' = EventOn(e, "get_options", "EMSGSIZE", <<"nla_put_u16">>, Nest(<<>>))
    /\ UNCHANGED <<vports, create_local, socks, ops, rt_refs, codec>>

\* lines 209-213: the name array of the vport, read as a C string
vxlan_get_name(e) ==
    /\ vports[e].state = "Active"
    /\ ev' = EventOn(e, "get_name", "OK", <<>>, CString(vports[e].name))
    /\ UNCHANGED <<vports, create_local, socks, ops, rt_refs, codec>>

----------------------------------------------------------------------------
(* The specification *)

Next ==
    \/ \E e \in Vports, name \in Names, options \in OptionSets :
          vxlan_tnl_create_begin(e, name, options)
    \/ \E e \in Vports : vxlan_tnl_create_sock(e)
    \/ \E e \in Vports : vxlan_tnl_destroy(e)
    \/ \E e \in Vports : free_vport_rcu(e)
    \/ \E e \in Vports, k \in SendKeys : vxlan_tnl_send_begin(e, k)
    \/ \E o \in InFlight : vxlan_tnl_send_xmit(o)
    \/ \E s \in Socks, iph \in RcvHdrs, v \in RcvVnis : vxlan_rcv_begin(s, iph, v)
    \/ \E o \in InFlight : vxlan_rcv_deliver(o)

Spec == Init /\ [][Next]_vars

\* a send or receive that the free of vport e waits for completes
CompleteFor(e) ==
    \E o \in InFlight : e \in o.grace /\ (vxlan_tnl_send_xmit(o) \/ vxlan_rcv_deliver(o))

\* the operations on endpoints that are created with well-formed options and
\* sent packets that carry a tunnel key
NextLife ==
    \/ \E e \in Vports, name \in Names :
          vxlan_tnl_create_begin(e, name, Nest(<<Attr(OVS_TUNNEL_ATTR_DST_PORT, 2, 4789)>>))
    \/ \E e \in Vports : vxlan_tnl_create_sock(e)
    \/ \E e \in Vports : vxlan_tnl_destroy(e)
    \/ \E e \in Vports : free_vport_rcu(e)
    \/ \E e \in Vports : vxlan_tnl_send_begin(e, <<Key5000>>)
    \/ \E o \in InFlight : vxlan_tnl_send_xmit(o)
    \/ \E s \in Socks, iph \in RcvHdrs, v \in RcvVnis : vxlan_rcv_begin(s, iph, v)
    \/ \E o \in InFlight : vxlan_rcv_deliver(o)

\* the same with their scheduling: a send or receive that has started runs to
\* its end (it runs with bottom halves disabled and does not sleep), and the
\* RCU callback of a deferred free runs once its grace period is over
FairSpec ==
    /\ Init
    /\ [][NextLife]_vars
    /\ \A e \in Vports : WF_vars(CompleteFor(e)) /\ WF_vars(free_vport_rcu(e))

\* the operations of ovs_vxlan_vport_ops (lines 215-222), the two accessors
\* among them
NextAcc ==
    \/ \E e \in Vports, name \in Names, options \in OptionSets :
          vxlan_tnl_create_begin(e, name, options)
    \/ \E e \in Vports : vxlan_tnl_create_sock(e)
    \/ \E e \in Vports : vxlan_tnl_destroy(e)
    \/ \E e \in Vports : free_vport_rcu(e)
    \/ \E e \in Vports, k \in SendKeys : vxlan_tnl_send_begin(e, k)
    \/ \E o \in InFlight : vxlan_tnl_send_xmit(o)
    \/ \E e \in Vports, room \in BOOLEAN : vxlan_get_options(e, room)
    \/ \E e \in Vports : vxlan_get_name(e)

SpecAcc == Init /\ [][NextAcc]_vars

----------------------------------------------------------------------------
(* The header computations of send and receive on their own: a tunnel key is
   encapsulated as vxlan_tnl_send does it (lines 189-202) and the packet is
   then decapsulated as vxlan_rcv does it (lines 78-80) *)

\* tunnel ids as CPU 64-bit integers: inside the 24 bits of a VNI, and beyond
TunnelIds ==
    {Digits(n, 8) : n \in {0, 1, 255, 256, 5000, 65535, 1193046, 16777215, 16777216, 16782216}}
    \cup {<<0, 0, 0, 0, 1, 0, 0, 0>>, <<255, 255, 255, 255, 255, 255, 255, 255>>}

CodecFlags ==
    { {}, {"TUNNEL_DONT_FRAGMENT"}, {"TUNNEL_KEY"},
      {"TUNNEL_DONT_FRAGMENT", "TUNNEL_KEY", "TUNNEL_CSUM"} }

CodecStart(id, flags, port) ==
    [stage |-> "key",
     key |-> TunnelKey(Addr1, Addr2, cpu_to_be64(id), 0, 64, flags),
     dst_port |-> port, pkt |-> <<>>, rkey |-> <<>>]

InitCodec ==
    /\ vports = [e \in Vports |-> FreeVport("Uninitialized")]
    /\ create_local = [e \in Vports |-> <<>>]
    /\ socks = [s \in Socks |-> UnusedSock]
    /\ ops = EmptyBag
    /\ rt_refs = 0
    /\ ev = Event("init", "-", <<>>, {})
    /\ codec \in {CodecStart(id, flags, htons(U16(p))) :
                     id \in TunnelIds, flags \in CodecFlags, p \in Ports}

\* the outer header that send builds for the key
codec_send ==
    /\ codec.stage = "key"
    /\ codec' = [codec EXCEPT
                   !.stage = "wire",
                   !.pkt = <<vxlan_xmit_args(Op("send", NoVport, <<codec.key>>,
                                                codec.dst_port, TRUE))>>]
    /\ UNCHANGED <<vports, create_local, socks, ops, rt_refs, ev>>

\* the tunnel key that receive builds from that packet
codec_rcv ==
    /\ codec.stage = "wire"
    /\ LET pkt == codec.pkt[1]
       IN  codec' = [codec EXCEPT
                       !.stage = "out",
                       !.rkey = <<ovs_flow_tun_key_init(
                                     IpHdr(pkt.saddr, pkt.dst, pkt.tos, pkt.ttl),
                                     vxlan_rcv_key(pkt.vni), {"TUNNEL_KEY"})>>]
    /\ UNCHANGED <<vports, create_local, socks, ops, rt_refs, ev>>

NextCodec == codec_send \/ codec_rcv

SpecCodec == InitCodec /\ [][NextCodec]_vars

----------------------------------------------------------------------------
(* vxlan_rcv on its own: one underlay packet with an arbitrary 32-bit VNI field
   arrives on a socket and is handed to the pipeline (lines 70-85) *)

\* VNI fields as they stand in the packet (network order), the reserved low
\* byte zero and not
RcvFields ==
    { <<0, 0, 0, 0>>, <<0, 0, 0, 255>>, <<0, 0, 1, 0>>, <<0, 19, 136, 0>>,
      <<0, 19, 136, 1>>, <<18, 52, 86, 0>>, <<18, 52, 86, 171>>, <<128, 0, 0, 0>>,
      <<255, 255, 255, 0>>, <<255, 255, 255, 255>> }

RcvOuterHdrs == { IpHdr(Addr2, Addr1, 0, 63), IpHdr(Addr1, Addr2, 184, 1), IpHdr(Addr2, Addr2, 255, 255) }

\* inner frames, as byte strings
RcvPayloads == { <<>>, <<222, 173, 190, 239>> }

RcvStart(f, iph, payload) ==
    [stage |-> "wire", vx_vni |-> f, skb |-> [iph |-> iph, payload |-> payload],
     tun_key |-> <<>>, received |-> <<>>]

InitRcv ==
    /\ vports = [e \in Vports |-> FreeVport("Uninitialized")]
    /\ create_local = [e \in Vports |-> <<>>]
    /\ socks = [s \in Socks |-> UnusedSock]
    /\ ops = EmptyBag
    /\ rt_refs = 0
    /\ ev = Event("init", "-", <<>>, {})
    /\ codec \in {RcvStart(f, iph, payload) :
                     f \in RcvFields, iph \in RcvOuterHdrs, payload \in RcvPayloads}

\* lines 78-80: the tunnel key is built from the outer header and the VNI field
rcv_key_init ==
    /\ codec.stage = "wire"
    /\ codec' = [codec EXCEPT
                   !.stage = "keyed",
                   !.tun_key = <<ovs_flow_tun_key_init(codec.skb.iph, vxlan_rcv_key(codec.vx_vni),
                                                       {"TUNNEL_KEY"})>>]
    /\ UNCHANGED <<vports, create_local, socks, ops, rt_refs, ev>>

\* rcv_vport_receive taking the lock of the socket table before it delivers
rcv_vport_receive_locked ==
    /\ codec.stage = "keyed"
    /\ codec.lock = "free"
    /\ codec' = [codec EXCEPT
                   !.stage = "returned",
                   !.received = Append(@, [skb |-> codec.skb, tun_key |-> codec.tun_key[1]])]
    /\ UNCHANGED <<vports, create_local, socks, ops, rt_refs, ev>>

\* line 84: ovs_vport_receive(vport, skb, &tun_key); vxlan_rcv then returns
rcv_vport_receive ==
    /\ codec.stage = "keyed"
    /\ codec' = [codec EXCEPT
                   !.stage = "returned",
                   !.received = Append(@, [skb |-> codec.skb, tun_key |-> codec.tun_key[1]])]
    /\ UNCHANGED <<vports, create_local, socks, ops, rt_refs, ev>>

NextRcv == rcv_key_init \/ rcv_vport_receive

SpecRcv == InitRcv /\ [][NextRcv]_vars

----------------------------------------------------------------------------
(* The source port of vxlan_tnl_send on its own (lines 194-195): packets of a
   few inner flows are sent, with any tunnel key and through any vport, while
   the local port range stays as configured *)

\* the local port ranges of the net namespace: the default, one port, the top
PortRanges ==
    { [port_min |-> 32768, port_max |-> 61000], [port_min |-> 1024, port_max |-> 1024],
      [port_min |-> 49152, port_max |-> 65535] }

\* inner flows, each with the 32-bit flow hash of its packets
Flows ==
    { [id |-> 1, rxhash |-> <<1, 0, 0, 0>>], [id |-> 2, rxhash |-> <<255, 255, 255, 255>>],
      [id |-> 3, rxhash |-> <<0, 0, 0, 128>>], [id |-> 4, rxhash |-> <<239, 190, 173, 222>>],
      [id |-> 5, rxhash |-> <<0, 0, 1, 0>>], [id |-> 6, rxhash |-> <<120, 86, 52, 18>>] }

\* the tunnel keys of the packets sent
SrcPortKeys ==
    { Key5000, TunnelKey(Addr2, Addr1, cpu_to_be64(Digits(1, 8)), 16, 1, {}) }

\* a packet of an inner flow as send gets it: OVS_CB(skb)->tun_key, the flow
\* hash of the inner headers, the inner frame
Skb(flow, tun_key, payload) ==
    [flow |-> flow.id, rxhash |-> flow.rxhash, tun_key |-> tun_key, payload |-> payload]

\* ((u64) hash * range) >> 32, for a range of at most 2^15
ScaleHash(hash, range) ==
    LET hi == hash[3] + 256 * hash[4]
        lo == hash[1] + 256 * hash[2]
    IN  (hi * range + (lo * range) \div 65536) \div 65536

\* vxlan_src_port(port_min, port_max, skb): the flow hash of the packet scaled
\* into the range, in network byte order
vxlan_src_port(port_min, port_max, skb) ==
    htons(U16(ScaleHash(skb.rxhash, (port_max - port_min) + 1) + port_min))

\* vxlan_tnl_send_src_port with the tunnel id added to what selects the port
vxlan_tnl_send_src_port_keyed(net, vport, skb) ==
    LET range == (net.port_max - net.port_min) + 1
    IN  htons(U16(net.port_min
                  + ((ScaleHash(skb.rxhash, range) + be64_to_cpu(skb.tun_key.tun_id)[1]) % range)))

\* lines 194-195: the port range of the namespace is read and the source port
\* selected from it and the packet
vxlan_tnl_send_src_port(net, vport, skb) == vxlan_src_port(net.port_min, net.port_max, skb)

InitSrcPort ==
    /\ vports = [e \in Vports |-> FreeVport("Uninitialized")]
    /\ create_local = [e \in Vports |-> <<>>]
    /\ socks = [s \in Socks |-> UnusedSock]
    /\ ops = EmptyBag
    /\ rt_refs = 0
    /\ ev = Event("init", "-", <<>>, {})
    /\ codec \in {[stage |-> "src_port", net |-> r, sent |-> {}] : r \in PortRanges}

\* one send as far as the source port goes: what was selected for the flow
src_port_send(e, flow, tun_key, payload) ==
    /\ codec' = [codec EXCEPT
                   !.sent = @ \cup {[flow |-> flow.id,
                                     src_port |-> vxlan_tnl_send_src_port(
                                                     codec.net, e, Skb(flow, tun_key, payload))]}]
    /\ UNCHANGED <<vports, create_local, socks, ops, rt_refs, ev>>

NextSrcPort ==
    \E e \in Vports, flow \in Flows, tun_key \in SrcPortKeys, payload \in RcvPayloads :
        src_port_send(e, flow, tun_key, payload)

SpecSrcPort == InitSrcPort /\ [][NextSrcPort]_vars

----------------------------------------------------------------------------
(* vxlan_rcv next to a create or destroy that is inside the socket table: the
   table's lock is taken and released by vxlan_sock_add and vxlan_sock_release,
   and may stay taken for any time *)

LockStart(f, iph, payload) ==
    [stage |-> "wire", vx_vni |-> f, skb |-> [iph |-> iph, payload |-> payload],
     tun_key |-> <<>>, received |-> <<>>, lock |-> "free"]

InitLock ==
    /\ vports = [e \in Vports |-> FreeVport("Uninitialized")]
    /\ create_local = [e \in Vports |-> <<>>]
    /\ socks = [s \in Socks |-> UnusedSock]
    /\ ops = EmptyBag
    /\ rt_refs = 0
    /\ ev = Event("init", "-", <<>>, {})
    /\ codec \in {LockStart(f, iph, payload) :
                     f \in RcvFields, iph \in RcvOuterHdrs, payload \in RcvPayloads}

\* vxlan_sock_add (called by create) or vxlan_sock_release (called by destroy)
\* takes the lock of the socket table
sock_lock(holder) ==
    /\ codec.lock = "free"
    /\ codec' = [codec EXCEPT !.lock = holder]
    /\ UNCHANGED <<vports, create_local, socks, ops, rt_refs, ev>>

\* the holder leaves the socket table
sock_unlock ==
    /\ codec.lock # "free"
    /\ codec' = [codec EXCEPT !.lock = "free"]
    /\ UNCHANGED <<vports, create_local, socks, ops, rt_refs, ev>>

NextLock ==
    \/ \E holder \in {"create", "destroy"} : sock_lock(holder)
    \/ sock_unlock
    \/ rcv_key_init
    \/ rcv_vport_receive

SpecLock == InitLock /\ [][NextLock]_vars

----------------------------------------------------------------------------
(* Vocabulary of the properties *)

Active(e) == vports[e].state = "Active"

\* the network-order ports endpoints may be bound to
BoundPorts == {htons(U16(p)) : p \in Ports}

\* the live endpoints (created and not yet destroyed) bound to a port
LiveOn(port) == {e \in Vports : Active(e) /\ socks[vports[e].vs].port = port}

\* the live endpoints that hold a reference to socket s
LiveRefs(s) == {e \in Vports : Active(e) /\ vports[e].vs = s}

\* the registry refcount of a port: that of its entry, 0 when it has none
Refcount(port) == IF SockOf(port) = {} THEN 0 ELSE socks[CHOOSE s \in SockOf(port) : TRUE].refcnt

\* this step is the destroy of endpoint e
DestroyStep(e) == Active(e) /\ vports'[e].state = "Destroying"

\* this step is the second half of the create of endpoint e
CreateSockStep(e) == vports[e].state = "Creating" /\ vports'[e].state # "Creating"

----------------------------------------------------------------------------
(* C1 *)

C1_SharedState ==
    \A e1, e2 \in Vports :
        (Active(e1) /\ Active(e2) /\ e1 # e2
            /\ socks[vports[e1].vs].port = socks[vports[e2].vs].port)
        => /\ vports[e1].vs = vports[e2].vs
           /\ socks[vports[e1].vs].st = "open"
           /\ socks[vports[e1].vs].refcnt = Cardinality(LiveRefs(vports[e1].vs))

C1_SecondCreateJoins ==
    \A e \in Vports :
        (CreateSockStep(e) /\ LiveOn(htons(create_local[e])) # {})
        => /\ vports'[e].state = "Active"
           /\ \A f \in LiveOn(htons(create_local[e])) :
                 /\ vports'[e].vs = vports[f].vs
                 /\ socks'[vports[f].vs].refcnt = socks[vports[f].vs].refcnt + 1
                 /\ socks'[vports[f].vs].st = "open"

C1_FirstDestroyKeepsOpen ==
    \A e \in Vports :
        (DestroyStep(e) /\ Cardinality(LiveRefs(vports[e].vs)) = 2)
        => /\ socks[vports[e].vs].refcnt = 2
           /\ socks'[vports[e].vs].st = "open"
           /\ socks'[vports[e].vs].refcnt = 1

C1_ClosedOnlyByLastDestroy ==
    \A s \in Socks :
        (socks[s].st = "open" /\ socks'[s].st # "open")
        => \E e \in Vports : DestroyStep(e) /\ LiveRefs(s) = {e}

\* C1: two endpoints created with the same dst_port (the first still live) are
\* both created, are bound to the same socket and make its refcount 2;
\* destroying either leaves the socket open with refcount 1, and the socket is
\* closed only by the destroy of the last endpoint that holds it.
C1_SharedSocket ==
    /\ []C1_SharedState
    /\ [][C1_SecondCreateJoins /\ C1_FirstDestroyKeepsOpen /\ C1_ClosedOnlyByLastDestroy]_vars

\* two endpoints shared a socket, one of them has been destroyed, and the
\* socket is still open for the other with refcount 1
C1_Witness ==
    \E e1, e2 \in Vports :
        /\ vports[e1].state = "Destroying"
        /\ Active(e2)
        /\ vports[e1].vs = vports[e2].vs
        /\ socks[vports[e2].vs].st = "open"
        /\ socks[vports[e2].vs].refcnt = 1

----------------------------------------------------------------------------
(* C2 *)

\* C2: in every reachable state and for every port, the registry refcount of
\* the port is the number of live endpoints bound to it, the port has at most
\* one open socket, and it has one exactly when that number is at least 1.
C2_RefcountIsLiveCount ==
    \A port \in BoundPorts :
        /\ Cardinality(SockOf(port)) <= 1
        /\ Refcount(port) = Cardinality(LiveOn(port))
        /\ (SockOf(port) # {}) <=> (Cardinality(LiveOn(port)) >= 1)
        /\ \A s \in SockOf(port) : socks[s].refcnt = Cardinality(LiveRefs(s))

\* a port with two live endpoints and refcount 2 while the other port has none
C2_Witness ==
    \E p, q \in BoundPorts :
        /\ Cardinality(LiveOn(p)) = 2
        /\ Refcount(p) = 2
        /\ Refcount(q) = 0
        /\ SockOf(q) = {}

----------------------------------------------------------------------------
(* C3 *)

C3_LastDestroyCloses ==
    \A e \in Vports :
        (DestroyStep(e) /\ LiveRefs(vports[e].vs) = {e})
        => /\ socks'[vports[e].vs].refcnt = 0
           /\ socks'[vports[e].vs].st = "closed"
           /\ socks'[vports[e].vs].closes = 1

C3_ClosedAtZeroOnce ==
    \A s \in Socks :
        /\ (socks[s].st = "open" /\ socks'[s].st # "open")
              <=> (socks[s].refcnt >= 1 /\ socks'[s].refcnt = 0 /\ socks[s].st = "open")
        /\ socks[s].st = "closed" => socks'[s] = socks[s]

C3_NoneLiveNoneOpen ==
    (\A e \in Vports : ~Active(e))
    => \A s \in Socks : /\ socks[s].st # "open"
                        /\ socks[s].refcnt = 0
                        /\ socks[s].closes = (IF socks[s].st = "closed" THEN 1 ELSE 0)

\* C3: the destroy of the only endpoint on a socket leaves refcount 0 and the
\* socket closed; a socket is closed exactly in the step that brings its
\* refcount to zero and is never closed again; and when no endpoint is live,
\* no socket is open and no entry remains.
C3_OpenedClosedOnce ==
    /\ []C3_NoneLiveNoneOpen
    /\ [][C3_LastDestroyCloses /\ C3_ClosedAtZeroOnce]_vars

\* every endpoint that was created has been destroyed, after two of them shared
\* a socket, which is closed
C3_Witness ==
    /\ \A e \in Vports : vports[e].state = "Destroying"
    /\ \A e \in Vports : vports[e].vs = vports[1].vs
    /\ socks[vports[1].vs].st = "closed"
    /\ socks[vports[1].vs].closes = 1

----------------------------------------------------------------------------
(* C4 *)

\* the options are absent, or carry no dst_port, or one that is not 16 bits wide
BadOptions(options) ==
    \/ options.null
    \/ LET dst == SelectSeq(options.attrs, LAMBDA a : a.type = OVS_TUNNEL_ATTR_DST_PORT)
       IN  dst = <<>> \/ dst[1].len # 2

\* this step begins a create call
CreateCall == ev'.op = "create" /\ ev'.arg # <<>>

C4_Step ==
    (CreateCall /\ BadOptions(ev'.arg[1]))
    => /\ ev'.ret = "EINVAL"
       /\ ev'.calls = <<>>
       /\ UNCHANGED <<vports, create_local, socks, ops, rt_refs>>

\* C4: a create whose options are absent, lack dst_port or carry a dst_port that
\* is not 16 bits wide returns -EINVAL (ConfigError) without a call to the
\* allocator or to vxlan_sock_add, and leaves the endpoints and the registry
\* as they were.
C4_ConfigErrorTouchesNothing == [][C4_Step]_vars

\* a create with a 32-bit dst_port has been refused while an endpoint is live
C4_Witness ==
    /\ ev.op = "create"
    /\ ev.ret = "EINVAL"
    /\ ev.arg = <<Nest(<<Attr(OVS_TUNNEL_ATTR_DST_PORT, 4, 4789)>>)>>
    /\ \E e \in Vports : Active(e)

----------------------------------------------------------------------------
(* C5 *)

InCalls(c, calls) == \E i \in 1 .. Len(calls) : calls[i] = c

C5_AllocFailure ==
    (ev'.op = "create" /\ ev'.ret = "ENOMEM")
    => /\ ~InCalls("vxlan_sock_add", ev'.calls)
       /\ UNCHANGED <<vports, create_local, socks, ops>>

C5_SocketFailure ==
    (ev'.op = "create" /\ ev'.ret = "SocketError")
    => /\ socks' = socks
       /\ ops' = ops
       /\ \E e \in Vports :
             /\ vports[e].state = "Creating"
             /\ vports'[e] = FreeVport("Freed")
             /\ \A f \in Vports \ {e} : vports'[f] = vports[f]

C5_OnlyCreateActivates ==
    \A e \in Vports :
        /\ vports[e].state = "Freed" => vports'[e] = vports[e]
        /\ (~Active(e) /\ vports'[e].state = "Active")
              => /\ vports[e].state = "Creating"
                 /\ ev'.ret = "OK"
                 /\ socks'[vports'[e].vs].st = "open"

\* C5: a create whose allocation fails makes no socket call and changes
\* nothing; a create whose vxlan_sock_add fails returns the error, its vport is
\* freed in the same step and is never Active, and the registry is unchanged.
C5_CreateAllOrNothing == [][C5_AllocFailure /\ C5_SocketFailure /\ C5_OnlyCreateActivates]_vars

\* a socket open has failed: the vport of that create is Freed, another is live
C5_Witness ==
    /\ ev.op = "create"
    /\ ev.ret = "SocketError"
    /\ \E e, f \in Vports : vports[e].state = "Freed" /\ Active(f)

----------------------------------------------------------------------------
(* C6 *)

C6_NoReaderOfFreed == \A o \in InFlight : o.pre => vports[o.vport].state # "Freed"

C6_FreeWaits ==
    \A e \in Vports :
        (vports[e].state = "Destroying" /\ vports'[e].state = "Freed")
        => \A o \in InFlight : ~(o.vport = e /\ o.pre)

\* the operation that completes in this step
Completes(o) == CopiesIn(o, ops') < CopiesIn(o, ops)

C6_NoStaleRead ==
    \A o \in InFlight : (Completes(o) /\ o.pre) => "freed_vport" \notin ev'.bad

\* C6: a destroyed endpoint becomes Freed only after every send and receive
\* that began before its destroy and references it has completed; no such
\* operation ever holds or reads an endpoint that is Freed.
C6_DeferredFree ==
    /\ []C6_NoReaderOfFreed
    /\ [][C6_FreeWaits /\ C6_NoStaleRead]_vars

\* a send and a receive that began before the destroy of their endpoint are
\* still in flight, and the endpoint waits in Destroying
C6_Witness ==
    \E o1, o2 \in InFlight :
        /\ o1.op = "send" /\ o2.op = "rcv"
        /\ o1.vport = o2.vport
        /\ o1.pre /\ o2.pre
        /\ vports[o1.vport].state = "Destroying"

----------------------------------------------------------------------------
(* C7 *)

C7_Step ==
    (ev'.op = "send" /\ ev'.arg = << <<>> >>)
    => /\ ev'.ret = "EINVAL"
       /\ ev'.calls = <<>>
       /\ UNCHANGED <<vports, create_local, socks, ops, rt_refs>>

\* C7: a send of a packet without tunnel key returns -EINVAL
\* (MissingTunnelKeyError) and makes no call: no route lookup, no route put, no
\* source port selection, no transmit; the endpoint stays Active.
C7_MissingTunnelKey == [][C7_Step]_vars

\* a packet without tunnel key has been refused
C7_Witness ==
    /\ ev.op = "send"
    /\ ev.arg = << <<>> >>
    /\ ev.ret = "EINVAL"

----------------------------------------------------------------------------
(* C8 *)

Count(c, calls) == Cardinality({i \in 1 .. Len(calls) : calls[i] = c})

C8_Step ==
    (ev'.op = "send" /\ ev'.arg = <<>>)
    => /\ Count("find_route", ev'.calls) = 1
       /\ rt_refs' = rt_refs
       /\ \/ /\ ev'.ret = "RouteError"
             /\ Count("vxlan_xmit_skb", ev'.calls) = 0
             /\ Count("ip_rt_put", ev'.calls) = 0
          \/ /\ ev'.ret = "OK"
             /\ Count("vxlan_xmit_skb", ev'.calls) = 1
             /\ Count("ip_rt_put", ev'.calls) = 0
          \/ /\ ev'.ret = "XmitError"
             /\ Count("vxlan_xmit_skb", ev'.calls) = 1
             /\ Count("ip_rt_put", ev'.calls) = 1

\* C8: a send with a tunnel key looks the route up once; when the lookup fails
\* it returns the error without transmit or put; otherwise it transmits once,
\* and puts the route exactly once when the transmit fails and not at all when
\* it succeeds; no returned send owns a route, none is put twice.
C8_RouteAccounting ==
    /\ [](rt_refs = 0)
    /\ [][C8_Step]_vars

\* a transmit has failed and its route has been put
C8_Witness ==
    /\ ev.op = "send"
    /\ ev.ret = "XmitError"
    /\ InCalls("ip_rt_put", ev.calls)
    /\ rt_refs = 0

----------------------------------------------------------------------------
(* C9 *)

\* C9: no step of a send or of a receive, failing or not, changes an endpoint's
\* state, name or socket, or the registry's entries and refcounts.
C9_PacketPathFrame == [][ev'.op \in {"send", "rcv"} => UNCHANGED <<vports, create_local, socks>>]_vars

\* a send has failed in the route lookup and its endpoint is still Active
C9_Witness ==
    /\ ev.op = "send"
    /\ ev.ret = "RouteError"
    /\ \E e \in Vports : Active(e) /\ socks[vports[e].vs].st = "open"

----------------------------------------------------------------------------
(* C10 *)

\* the CPU integer d is below 2^24
Fits24(d) == \A i \in 4 .. Len(d) : d[i] = 0

\* C10: for every tunnel id below 2^24, the tunnel key that receive builds from
\* the VNI field send produced carries the same tunnel id; tunnel id 5000 is
\* sent as the field 00 13 88 00 (0x138800).
C10_TunnelIdRoundTrip ==
    /\ (codec.stage = "out" /\ Fits24(be64_to_cpu(codec.key.tun_id)))
          => codec.rkey[1].tun_id = codec.key.tun_id
    /\ (codec.stage \in {"wire", "out"} /\ be64_to_cpu(codec.key.tun_id) = Digits(5000, 8))
          => codec.pkt[1].vni = <<0, 19, 136, 0>>

\* tunnel id 5000 has been sent as 0x138800 and received as 5000
C10_Witness ==
    /\ codec.stage = "out"
    /\ codec.key.tun_id = <<0, 0, 0, 0, 0, 0, 19, 136>>
    /\ codec.pkt[1].vni = <<0, 19, 136, 0>>
    /\ be64_to_cpu(codec.rkey[1].tun_id) = Digits(5000, 8)

----------------------------------------------------------------------------
(* C11 *)

\* the network-order 64-bit tunnel id whose value is the top 24 bits of the
\* network-order 32-bit field f
TopBitsOf(f) == <<0, 0, 0, 0, 0, f[1], f[2], f[3]>>

C11_KeyOf(key, f, iph) ==
    /\ key.tun_id = TopBitsOf(f)
    /\ key.tun_flags = {"TUNNEL_KEY"}
    /\ key.ipv4_src = iph.saddr
    /\ key.ipv4_dst = iph.daddr
    /\ key.ipv4_tos = iph.tos

\* C11: for every 32-bit VNI field f received, the tunnel key that receive
\* builds has tunnel id f >> 8 (the top 24 bits of f, whatever the low 8 bits
\* are), flags exactly "key present", and source address, destination address
\* and tos of the outer IP header; it is handed to the pipeline exactly once,
\* together with the unchanged packet.
C11_ReceiveKey ==
    /\ codec.stage = "wire" => codec.received = <<>>
    /\ codec.stage = "keyed" =>
          /\ codec.received = <<>>
          /\ C11_KeyOf(codec.tun_key[1], codec.vx_vni, codec.skb.iph)
    /\ codec.stage = "returned" =>
          /\ Len(codec.received) = 1
          /\ codec.received[1].skb = codec.skb
          /\ C11_KeyOf(codec.received[1].tun_key, codec.vx_vni, codec.skb.iph)
          /\ Fits24(be64_to_cpu(codec.received[1].tun_key.tun_id))

\* the field 0x123456ab has been received and handed on as tunnel id 0x123456
C11_Witness ==
    /\ codec.stage = "returned"
    /\ codec.vx_vni = <<18, 52, 86, 171>>
    /\ Len(codec.received) = 1
    /\ be64_to_cpu(codec.received[1].tun_key.tun_id) = Digits(1193046, 8)
    /\ codec.received[1].skb.payload = <<222, 173, 190, 239>>

----------------------------------------------------------------------------
(* C12 *)

\* the dst_port that accepted options carry
GivenPort(options) ==
    LET idx == {i \in 1 .. Len(options.attrs) : options.attrs[i].type = OVS_TUNNEL_ATTR_DST_PORT}
    IN  options.attrs[CHOOSE i \in idx : \A j \in idx : i <= j].val

\* the dst_port that the live endpoint e was created with
CreatedPort(e) == U16Value(ntohs(socks[vports[e].vs].port))

\* create stores the name and the dst_port it was given, and binds the endpoint
\* to a socket of that port
C12_CreateStores ==
    \A e \in Vports :
        /\ (vports[e].state = "Uninitialized" /\ vports'[e].state = "Creating")
           => \E name \in Names, options \in OptionSets :
                 /\ vxlan_tnl_create_begin(e, name, options)
                 /\ CString(vports'[e].name) = name
                 /\ U16Value(create_local'[e]) = GivenPort(options)
        /\ (CreateSockStep(e) /\ vports'[e].state = "Active")
           => /\ CreatedPort(e)' = U16Value(create_local[e])
              /\ vports'[e].name = vports[e].name

\* name and dst_port of an endpoint stay as they are while it is Active
C12_Stable ==
    \A e \in Vports :
        (Active(e) /\ Active(e)')
        => /\ CreatedPort(e)' = CreatedPort(e)
           /\ vports'[e].name = vports[e].name

\* every send carries the dst_port of its endpoint from its first step to the
\* transmit
C12_SendUses ==
    /\ \A o \in BagToSet(ops') :
          (ev'.op = "send" /\ CopiesIn(o, ops') > CopiesIn(o, ops))
          => U16Value(ntohs(o.dst_port)) = CreatedPort(o.vport)
    /\ \A o \in BagToSet(ops) :
          (ev'.op = "send" /\ ev'.out # <<>> /\ CopiesIn(o, ops') < CopiesIn(o, ops))
          => ev'.out[1].dst_port = o.dst_port

C12_GetName ==
    ev'.op = "get_name" => ev'.out[1] \in Names /\ ev'.out[1] = CString(vports[ev'.arg[1]].name)

\* what C12 says of create, send and get_name
C12_Rest == C12_CreateStores /\ C12_Stable /\ C12_SendUses /\ C12_GetName

\* C12 as stated: for every dst_port d accepted by create, every get_options
\* on the resulting Active endpoint returns dst_port = d; every send uses d,
\* get_name returns the name given at create, and these values do not change
\* while the endpoint is Active.
C12_GetOptionsAlways ==
    [][/\ C12_Rest
       /\ ev'.op = "get_options"
          => /\ ev'.ret = "OK"
             /\ ev'.out[1] = Nest(<<Attr(OVS_TUNNEL_ATTR_DST_PORT, 2, CreatedPort(ev'.arg[1]))>>)]_vars

\* C12: for every dst_port d accepted by create, get_options on the resulting
\* Active endpoint either returns dst_port = d or, when the reply has no room
\* for the attribute, fails with EMSGSIZE and returns no option; every send on
\* the endpoint uses d as the outer UDP destination port, get_name returns the
\* name given at create, and these values do not change while the endpoint is
\* Active.
C12_PortAndName ==
    [][/\ C12_Rest
       /\ ev'.op = "get_options"
          => \/ /\ ev'.ret = "OK"
                /\ ev'.out[1] = Nest(<<Attr(OVS_TUNNEL_ATTR_DST_PORT, 2, CreatedPort(ev'.arg[1]))>>)
             \/ /\ ev'.ret = "EMSGSIZE"
                /\ ev'.out[1] = Nest(<<>>)]_vars

\* get_options has returned 4789 for an endpoint of port 4789 (on the wire
\* 0x12 0xb5) while another endpoint is bound to port 8472
C12_Witness ==
    /\ ev.op = "get_options"
    /\ ev.ret = "OK"
    /\ ev.out[1] = Nest(<<Attr(OVS_TUNNEL_ATTR_DST_PORT, 2, 4789)>>)
    /\ Active(ev.arg[1])
    /\ socks[vports[ev.arg[1]].vs].port = <<18, 181>>
    /\ \E f \in Vports : Active(f) /\ CreatedPort(f) = 8472

----------------------------------------------------------------------------
(* C13 *)

\* the place of a state in the lifecycle
LifecycleRank(st) ==
    CASE st = "Uninitialized" -> 0
      [] st = "Creating" -> 1
      [] st = "Active" -> 2
      [] st = "Destroying" -> 3
      [] st = "Freed" -> 4

C13_Forward ==
    \A e \in Vports :
        /\ LifecycleRank(vports'[e].state) >= LifecycleRank(vports[e].state)
        /\ vports[e].state \in {"Destroying", "Freed"} => vports'[e].state # "Active"
        /\ vports[e].state = "Freed" => vports'[e].state = "Freed"

\* this step frees endpoint e
FreeStep(e) == vports[e].state # "Freed" /\ vports'[e].state = "Freed"

\* C13 as stated: the state of an endpoint only moves forward along
\* Uninitialized, Creating, Active, Destroying, Freed, never from Destroying or
\* Freed back to Active, and Freed is reached only from Destroying.
C13_FreedOnlyFromDestroying ==
    [][/\ C13_Forward
       /\ \A e \in Vports : FreeStep(e) => vports[e].state = "Destroying"]_vars

\* C13: the state of an endpoint only moves forward along Uninitialized,
\* Creating, Active, Destroying, Freed, never from Destroying or Freed back to
\* Active; Freed is reached only from Destroying, or from Creating by a create
\* that fails to get its socket.
C13_OneWay ==
    [][/\ C13_Forward
       /\ \A e \in Vports :
             FreeStep(e)
             => \/ vports[e].state = "Destroying"
                \/ /\ vports[e].state = "Creating"
                   /\ ev'.op = "create"
                   /\ ev'.ret = "SocketError"]_vars

\* one endpoint has gone through destroy to Freed, another has been freed by a
\* create that failed, and nothing is Active
C13_Witness ==
    /\ ev.op = "create"
    /\ ev.ret = "SocketError"
    /\ \A e \in Vports : vports[e].state = "Freed"
    /\ \E s \in Socks : socks[s].st = "closed" /\ socks[s].closes = 1

----------------------------------------------------------------------------
(* C14 *)

----------------------------------------------------------------------------
(* C15 *)

\* no port has two open sockets, and a live endpoint holds a reference to an
\* open socket
C15_State ==
    /\ \A port \in BoundPorts : Cardinality(SockOf(port)) <= 1
    /\ \A e \in Vports :
          Active(e) => socks[vports[e].vs].st = "open" /\ socks[vports[e].vs].refcnt >= 1

\* a create that gets its socket joins the open socket of its port, which
\* stays open, or, when the port has none (any more), opens a fresh one
C15_CreateStep ==
    \A e \in Vports :
        (CreateSockStep(e) /\ vports'[e].state = "Active")
        => LET port == htons(create_local[e])
               s == vports'[e].vs
           IN  /\ socks'[s].st = "open"
               /\ socks'[s].port = port
               /\ IF SockOf(port) # {}
                  THEN s \in SockOf(port) /\ socks'[s].refcnt = socks[s].refcnt + 1
                  ELSE socks[s].st = "unused" /\ socks'[s].refcnt = 1

\* a destroy closes the socket exactly when it takes the last reference, and
\* then no live endpoint is bound to it
C15_DestroyStep ==
    \A e \in Vports :
        DestroyStep(e)
        => LET s == vports[e].vs
           IN  /\ socks'[s].st = "closed" <=> socks[s].refcnt = 1
               /\ socks'[s].st = "closed" => \A f \in Vports : ~(Active(f)' /\ vports'[f].vs = s)

\* C15: under every interleaving of the steps of concurrent creates and
\* destroys, no port ever has two open sockets; a create racing with the
\* destroy that brings the refcount of its port to zero joins the socket
\* before it is closed, and the socket then stays open, or opens a fresh one,
\* so that no Active endpoint is ever bound to a closed socket.
C15_RegistryAtomic ==
    /\ []C15_State
    /\ [][C15_CreateStep /\ C15_DestroyStep]_vars

\* a create for a port is between its allocation and its socket call, and a
\* destroy has just closed the socket of that port
C15_Witness ==
    /\ ev.op = "destroy"
    /\ \E e \in Vports, s \in Socks :
          /\ vports[e].state = "Creating"
          /\ socks[s].st = "closed"
          /\ socks[s].port = htons(create_local[e])
          /\ SockOf(socks[s].port) = {}

----------------------------------------------------------------------------
(* C16 *)

\* C16: in every state in which a create or a destroy holds the lock of the
\* socket registry, a receive that is in flight can take its next step, up to
\* and including the delivery to the pipeline: receive waits for no lock that
\* create or destroy holds.
C16_ReceiveNeverWaits ==
    codec.lock # "free"
    => /\ codec.stage = "wire" => ENABLED rcv_key_init
       /\ codec.stage = "keyed" => ENABLED rcv_vport_receive

\* a receive has built its tunnel key and can deliver while a destroy holds
\* the registry lock
C16_Witness ==
    /\ codec.lock = "destroy"
    /\ codec.stage = "keyed"
    /\ codec.tun_key # <<>>
    /\ ENABLED rcv_vport_receive

----------------------------------------------------------------------------
(* C17 *)

\* the network-order 32-bit field whose value is d << 8, for a CPU integer d
\* below 2^24
ShiftedField(d) == <<d[3], d[2], d[1], 0>>

\* C17: in the outer header that send hands to the transmit, the VNI field is
\* tunnel_id << 8 for every tunnel id below 2^24, and its low 8 bits are 0 for
\* every tunnel id; don't-fragment is set exactly when the flags of the tunnel
\* key contain DONT_FRAGMENT; ttl, tos and destination address are those of
\* the tunnel key.
C17_OuterHeader ==
    codec.stage \in {"wire", "out"}
    => LET pkt == codec.pkt[1]
           key == codec.key
       IN  /\ pkt.vni[4] = 0
           /\ Fits24(be64_to_cpu(key.tun_id)) => pkt.vni = ShiftedField(be64_to_cpu(key.tun_id))
           /\ pkt.df <=> "TUNNEL_DONT_FRAGMENT" \in key.tun_flags
           /\ pkt.ttl = key.ipv4_ttl
           /\ pkt.tos = key.ipv4_tos
           /\ pkt.dst = key.ipv4_dst

\* tunnel id 0x123456 with the flags DONT_FRAGMENT, KEY and CSUM has been sent
\* as the field 12 34 56 00 with don't-fragment set
C17_Witness ==
    /\ codec.stage = "wire"
    /\ be64_to_cpu(codec.key.tun_id) = Digits(1193046, 8)
    /\ codec.key.tun_flags = {"TUNNEL_DONT_FRAGMENT", "TUNNEL_KEY", "TUNNEL_CSUM"}
    /\ codec.pkt[1].vni = <<18, 52, 86, 0>>
    /\ codec.pkt[1].df

----------------------------------------------------------------------------
(* C18 *)

\* the operations that this step starts
Started == {o \in BagToSet(ops') : CopiesIn(o, ops') > CopiesIn(o, ops)}

\* the operations that this step completes
Completed == {o \in BagToSet(ops) : CopiesIn(o, ops') < CopiesIn(o, ops)}

\* C18: every packet that receive hands to the pipeline goes to an endpoint
\* that was live (Active, not Destroying or Freed) and bound to the port of
\* arrival when the packet arrived, and that has not been freed when the
\* pipeline gets it; so once the endpoint that opened a shared socket has been
\* destroyed, the packets that arrive on the socket do not go to it.
C18_DeliveredToLive ==
    [][ev'.op = "rcv"
       => /\ \A o \in Started :
                /\ Active(o.vport)
                /\ socks[vports[o.vport].vs].st = "open"
                /\ socks[vports[o.vport].vs].port = o.dst_port
          /\ \A o \in Completed : vports[o.vport].state # "Freed"]_vars

----------------------------------------------------------------------------
(* C19 *)

\* C19: no step of a send reads the port of, or transmits through, a socket
\* that has been closed, also when the destroy of the send's endpoint takes
\* the last reference to the socket while the send is in flight.
C19_NoSendOnClosedSocket ==
    [][ev'.op = "send"
       => /\ "closed_sock" \notin ev'.bad
          /\ \A o \in Started : socks[vports[o.vport].vs].st = "open"
          /\ \A o \in Completed :
                ev'.out # <<>>
                => /\ vports[o.vport].state # "Freed"
                   /\ socks[vports[o.vport].vs].st = "open"]_vars

----------------------------------------------------------------------------
(* C20 *)

\* a destroy takes one endpoint from Active to Destroying and releases the
\* reference of that endpoint to its socket once
C20_ReleasesOnce ==
    ev'.op = "destroy"
    => /\ Count("vxlan_sock_release", ev'.calls) = 1
       /\ Count("ovs_vport_deferred_free", ev'.calls) = 1
       /\ \E e \in Vports :
             /\ DestroyStep(e)
             /\ \A f \in Vports \ {e} : vports'[f] = vports[f]
             /\ LET s == vports[e].vs
                IN  /\ socks[s].st = "open"
                    /\ IF socks[s].refcnt = 1
                       THEN socks'[s].st = "closed" /\ socks'[s].refcnt = 0
                       ELSE socks'[s].st = "open" /\ socks'[s].refcnt = socks[s].refcnt - 1
                    /\ \A t \in Socks \ {s} : socks'[t] = socks[t]

\* no other operation releases a reference
C20_NoOtherRelease ==
    ev'.op # "destroy"
    => \A s \in Socks : socks[s].st = "open" => socks'[s].refcnt >= socks[s].refcnt

\* C20: when the sends and receives in flight run to their end and the
\* deferred frees are run, every endpoint on which destroy is called
\* eventually reaches Freed; destroy releases the socket reference of its
\* endpoint exactly once, and nothing else releases one.
C20_DestroyCompletes ==
    /\ \A e \in Vports : (vports[e].state = "Destroying") ~> (vports[e].state = "Freed")
    /\ [][C20_ReleasesOnce /\ C20_NoOtherRelease]_vars

\* the endpoint that opened a socket has been destroyed and then freed, no
\* send or receive is left in flight, and the socket has been closed once
C20_Witness ==
    /\ ev.op = "free"
    /\ ops = EmptyBag
    /\ \E e \in Vports :
          /\ vports[e].state = "Freed"
          /\ socks[e].st = "closed"
          /\ socks[e].closes = 1
          /\ socks[e].data = e

====
